---- MODULE Spec2Model ----
(***************************************************************************)
(* Conway's Game of Life with incrementally maintained neighbour counts.   *)
(* Model of the typed-array World / Grid / PointSet / WorldChanges classes *)
(* of src/game-of-life.ts (lines 217-521) and of the page bootstrap that   *)
(* constructs them and ticks the World, of the age-tracking World of       *)
(* src/game-of-life.ts (lines 1-215), and of the Renderer and the ticker   *)
(* that paints each tick's change set at a capped frame rate.              *)
(***************************************************************************)
EXTENDS Integers, FiniteSets, Sequences, TLC

\* Largest world width, height and number of cells (width * height) the
\* page is loaded with.
MaxW == 4
MaxH == 4
MaxCells == 12

\* Side-by-side runs of the two World variants: largest number of cells,
\* and number of ticks after which the run is cut off (age grows forever).
MaxAgedCells == 9
MaxAge == 5

\* Runs that follow a tick statement by statement: largest number of cells.
MaxStepCells == 12

\* The same runs where every started tick is followed to its end: largest
\* number of cells.
MaxTermCells == 9

\* A PointSet on its own: its number of slots, and the largest coordinate
\* pushed (the last column or row of a World of MaxCoord + 1 columns or rows).
MaxPoints == 3
MaxCoord == 65536

\* Runs of the whole page, Renderer and ticker included: largest number of
\* cells, largest pixelSize, and the last millisecond the clock reaches.
MaxPageCells == 6
MaxPixelSize == 2
MaxClock == 70

\* Long runs of the ticker: the last millisecond the clock reaches.
MaxTickerClock == 420

VARIABLES
    size,      \* <<x, y>>: the two arguments window.onload computes for new World
    pc,        \* "load": onload not run yet; "run": ticker installed; "failed": onload threw
    world,     \* the World object: width, height, state (Grid), neighbourCounts (Grid)
    changes,   \* the WorldChanges object reused for every tick
    aged,      \* the age-tracking variant: its World and the {births, deaths} of its last tick
    step,      \* where a tick followed statement by statement stands: phase, x, y, i
    clock,     \* what Date.now() returns, in milliseconds
    renderer,  \* the Renderer object: pixelSize, canvas (width, height), bitmap (data)
    ticker,    \* the ticker closure: lastTick, where its current call stands (phase),
               \* how its last call ended (outcome), and the calls made so far of
               \* world.tick (ticks) and renderer.render (renders)
    points     \* a PointSet on its own (set) and the pairs handed to its push since
               \* the last clear (pushed)

vars == <<size, pc, world, changes, aged, step, clock, renderer, ticker, points>>

----------------------------------------------------------------------------
(* Typed arrays *)

\* Storing a number into a Uint8Array element keeps it modulo 2^8.
Uint8(v) == v % 256

\* Storing a number into a Uint16Array element keeps it modulo 2^16.
Uint16(v) == v % 65536

\* new Uint8Array(n) / new Uint16Array(n) throws RangeError for a negative length.
TypedArrayThrows(length) == length < 0

----------------------------------------------------------------------------
(* class Grid *)

GridNew(width, height, values) ==
    [width |-> width, height |-> height, grid |-> values]

GridGet(g, x, y) == g.grid[(y * g.width) + x]

GridSet(g, x, y, value) ==
    [g EXCEPT !.grid[(y * g.width) + x] = Uint8(value)]

GridIncrement(g, x, y, offset) ==
    [g EXCEPT !.grid[(y * g.width) + x] = Uint8(@ + offset)]

----------------------------------------------------------------------------
(* class PointSet, class WorldChanges *)

PointSetNew(psize) ==
    [xs |-> [i \in 0..(psize - 1) |-> 0],
     ys |-> [i \in 0..(psize - 1) |-> 0],
     idx |-> 0]

push(ps, x, y) ==
    [xs |-> [ps.xs EXCEPT ![ps.idx] = Uint16(x)],
     ys |-> [ps.ys EXCEPT ![ps.idx] = Uint16(y)],
     idx |-> ps.idx + 1]

PointSetClear(ps) == [ps EXCEPT !.idx = 0]

\* The sequence of (x, y) pairs that forEach hands to its callback, in order.
forEach(ps) == [i \in 1..ps.idx |-> <<ps.xs[i - 1], ps.ys[i - 1]>>]

\* A change set sized for one row of cells only.
WorldChangesNew_OneRow(width, height) ==
    [births |-> PointSetNew(width),
     deaths |-> PointSetNew(width)]

WorldChangesNew(width, height) ==
    [births |-> PointSetNew(width * height),
     deaths |-> PointSetNew(width * height)]

\* clear that forgets the deaths set.
WorldChangesClear_BirthsOnly(ch) ==
    [births |-> PointSetClear(ch.births),
     deaths |-> ch.deaths]

WorldChangesClear(ch) ==
    [births |-> PointSetClear(ch.births),
     deaths |-> PointSetClear(ch.deaths)]

----------------------------------------------------------------------------
(* class World *)

\* incrementNeighbours with the (x + 1, y + 1) neighbour forgotten.
incrementNeighbours_SevenOnly(w, x0, y0, increment) ==
    LET x  == x0 + 1
        y  == y0 + 1
        n1 == GridIncrement(w.neighbourCounts, x - 1, y - 1, increment)
        n2 == GridIncrement(n1, x + 1, y - 1, increment)
        n3 == GridIncrement(n2, x - 1, y + 1, increment)
        n5 == GridIncrement(n3, x, y - 1, increment)
        n6 == GridIncrement(n5, x, y + 1, increment)
        n7 == GridIncrement(n6, x - 1, y, increment)
        n8 == GridIncrement(n7, x + 1, y, increment)
    IN  [w EXCEPT !.neighbourCounts = n8]

incrementNeighbours(w, x0, y0, increment) ==
    LET x  == x0 + 1
        y  == y0 + 1
        n1 == GridIncrement(w.neighbourCounts, x - 1, y - 1, increment)
        n2 == GridIncrement(n1, x + 1, y - 1, increment)
        n3 == GridIncrement(n2, x - 1, y + 1, increment)
        n4 == GridIncrement(n3, x + 1, y + 1, increment)
        n5 == GridIncrement(n4, x, y - 1, increment)
        n6 == GridIncrement(n5, x, y + 1, increment)
        n7 == GridIncrement(n6, x - 1, y, increment)
        n8 == GridIncrement(n7, x + 1, y, increment)
    IN  [w EXCEPT !.neighbourCounts = n8]

\* The slots (x, y) of neighbourCounts that incrementNeighbours(x0, y0, ..)
\* hands to neighbourCounts.increment, in the order of the eight calls.
neighbourSlots_NoPadding(x0, y0) ==
    LET x == x0
        y == y0
    IN  << <<x - 1, y - 1>>, <<x + 1, y - 1>>, <<x - 1, y + 1>>, <<x + 1, y + 1>>,
           <<x, y - 1>>, <<x, y + 1>>, <<x - 1, y>>, <<x + 1, y>> >>

neighbourSlots(x0, y0) ==
    LET x == x0 + 1
        y == y0 + 1
    IN  << <<x - 1, y - 1>>, <<x + 1, y - 1>>, <<x - 1, y + 1>>, <<x + 1, y + 1>>,
           <<x, y - 1>>, <<x, y + 1>>, <<x - 1, y>>, <<x + 1, y>> >>

\* The slot (x, y) of neighbourCounts that neighbourCount(x, y) hands to
\* neighbourCounts.get.
neighbourCountSlot(x, y) == <<x + 1, y + 1>>

isAlive(w, x, y) == GridGet(w.state, x, y) # 0

\* neighbourCount without the padding adjustment.
neighbourCount_NoPadding(w, x, y) == GridGet(w.neighbourCounts, x, y)

neighbourCount(w, x, y) == GridGet(w.neighbourCounts, x + 1, y + 1)

\* giveLife that adjusts the counts but never marks the cell alive.
giveLife_NoSet(w, x, y) == incrementNeighbours(w, x, y, 1)

giveLife(w, x, y) ==
    LET w1 == incrementNeighbours(w, x, y, 1)
    IN  [w1 EXCEPT !.state = GridSet(w1.state, x, y, 1)]

\* takeLife that clears the cell but leaves the neighbours' counts as they were.
takeLife_NoDecrement(w, x, y) == [w EXCEPT !.state = GridSet(w.state, x, y, 0)]

takeLife(w, x, y) ==
    LET w1 == incrementNeighbours(w, x, y, -1)
    IN  [w1 EXCEPT !.state = GridSet(w1.state, x, y, 0)]

\* initNeighbourCounts: x is the outer loop, y the inner one.
RECURSIVE initColumn(_, _, _)
initColumn(w, x, y) ==
    IF y < w.height
    THEN initColumn(IF isAlive(w, x, y) THEN incrementNeighbours(w, x, y, 1) ELSE w,
                    x, y + 1)
    ELSE w

RECURSIVE initColumns(_, _)
initColumns(w, x) ==
    IF x < w.width THEN initColumns(initColumn(w, x, 0), x + 1) ELSE w

\* initNeighbourCounts that starts its scan at the second column.
initNeighbourCounts_FromOne(w) == initColumns(w, 1)

initNeighbourCounts(w) == initColumns(w, 0)

\* The constructor; fill holds the values the random valuefn returns, in
\* the order the Grid constructor stores them.
WorldNew(x, y, fill) ==
    initNeighbourCounts(
        [width  |-> x,
         height |-> y,
         state  |-> GridNew(x, y, fill),
         neighbourCounts |->
             GridNew(x + 2, y + 2, [i \in 0..(((x + 2) * (y + 2)) - 1) |-> 0])])

\* A constructor that rejects non-positive dimensions.
WorldNewThrows_Validating(x, y) ==
    x <= 0 \/ y <= 0 \/ TypedArrayThrows(x * y) \/ TypedArrayThrows((x + 2) * (y + 2))

\* The constructor throws when one of its two Grids cannot be allocated.
WorldNewThrows(x, y) ==
    TypedArrayThrows(x * y) \/ TypedArrayThrows((x + 2) * (y + 2))

\* The decision with the underpopulation test off by one (n <= 2).
scanCell_UnderTwo(w, ch, x, y) ==
    LET n == neighbourCount(w, x, y)
    IN  IF isAlive(w, x, y) /\ (n <= 2 \/ n > 3)
        THEN [ch EXCEPT !.deaths = push(@, x, y)]
        ELSE IF ~isAlive(w, x, y) /\ n = 3
             THEN [ch EXCEPT !.births = push(@, x, y)]
             ELSE ch

\* The decision with the overpopulation test off by one (n >= 3).
scanCell_OverThree(w, ch, x, y) ==
    LET n == neighbourCount(w, x, y)
    IN  IF isAlive(w, x, y) /\ (n < 2 \/ n >= 3)
        THEN [ch EXCEPT !.deaths = push(@, x, y)]
        ELSE IF ~isAlive(w, x, y) /\ n = 3
             THEN [ch EXCEPT !.births = push(@, x, y)]
             ELSE ch

\* The body of the decision loop of tick for one cell.
scanCell(w, ch, x, y) ==
    LET n == neighbourCount(w, x, y)
    IN  IF isAlive(w, x, y) /\ (n < 2 \/ n > 3)
        THEN [ch EXCEPT !.deaths = push(@, x, y)]
        ELSE IF ~isAlive(w, x, y) /\ n = 3
             THEN [ch EXCEPT !.births = push(@, x, y)]
             ELSE ch

\* A loop body that applies each decision as soon as it is taken.
scanBody_Eager(w, ch, x, y) ==
    LET n == neighbourCount(w, x, y)
    IN  IF isAlive(w, x, y) /\ (n < 2 \/ n > 3)
        THEN [world |-> takeLife(w, x, y), changes |-> scanCell(w, ch, x, y)]
        ELSE IF ~isAlive(w, x, y) /\ n = 3
             THEN [world |-> giveLife(w, x, y), changes |-> scanCell(w, ch, x, y)]
             ELSE [world |-> w, changes |-> ch]

\* What one pass of the loop body leaves: the World and the change set.
scanBody(w, ch, x, y) == [world |-> w, changes |-> scanCell(w, ch, x, y)]

RECURSIVE scanRow(_, _, _, _)
scanRow(w, ch, x, y) ==
    IF x < w.width THEN scanRow(w, scanCell(w, ch, x, y), x + 1, y) ELSE ch

RECURSIVE scanRows(_, _, _)
scanRows(w, ch, y) ==
    IF y < w.height THEN scanRows(w, scanRow(w, ch, 0, y), y + 1) ELSE ch

RECURSIVE takeLifeEach(_, _)
takeLifeEach(w, pts) ==
    IF pts = << >> THEN w
    ELSE takeLifeEach(takeLife(w, Head(pts)[1], Head(pts)[2]), Tail(pts))

RECURSIVE giveLifeEach(_, _)
giveLifeEach(w, pts) ==
    IF pts = << >> THEN w
    ELSE giveLifeEach(giveLife(w, Head(pts)[1], Head(pts)[2]), Tail(pts))

\* World.tick(changes): the World and the change set it leaves behind.
tick(w, ch) ==
    LET c0 == WorldChangesClear(ch)
        c1 == scanRows(w, c0, 0)
        w1 == takeLifeEach(w, forEach(c1.deaths))
        w2 == giveLifeEach(w1, forEach(c1.births))
    IN  [world |-> w2, changes |-> c1]

----------------------------------------------------------------------------
(* class World of the age-tracking variant: state and neighbourCounts are  *)
(* arrays of rows of plain numbers, a born cell stores age + 1.            *)

generateGrid(width, height, values) ==
    [y \in 0..(height - 1) |-> [x \in 0..(width - 1) |-> values[(y * width) + x]]]

ageIncrementNeighbours(w, x0, y0, increment) ==
    LET x  == x0 + 1
        y  == y0 + 1
        n1 == [w.neighbourCounts EXCEPT ![y - 1][x - 1] = @ + increment]
        n2 == [n1 EXCEPT ![y - 1][x + 1] = @ + increment]
        n3 == [n2 EXCEPT ![y + 1][x - 1] = @ + increment]
        n4 == [n3 EXCEPT ![y + 1][x + 1] = @ + increment]
        n5 == [n4 EXCEPT ![y - 1][x] = @ + increment]
        n6 == [n5 EXCEPT ![y + 1][x] = @ + increment]
        n7 == [n6 EXCEPT ![y][x - 1] = @ + increment]
        n8 == [n7 EXCEPT ![y][x + 1] = @ + increment]
    IN  [w EXCEPT !.neighbourCounts = n8]

ageIsAlive(w, x, y) == w.state[y][x] # 0

ageNeighbourCount(w, x, y) == w.neighbourCounts[y + 1][x + 1]

\* giveLife that stores 1, as the typed-array variant does.
ageGiveLife_StoresOne(w, p) ==
    LET w1 == ageIncrementNeighbours(w, p[1], p[2], 1)
    IN  [w1 EXCEPT !.state[p[2]][p[1]] = 1]

\* giveLife that stores age instead of age + 1.
ageGiveLife_StoresAge(w, p) ==
    LET w1 == ageIncrementNeighbours(w, p[1], p[2], 1)
    IN  [w1 EXCEPT !.state[p[2]][p[1]] = w.age]

ageGiveLife(w, p) ==
    LET w1 == ageIncrementNeighbours(w, p[1], p[2], 1)
    IN  [w1 EXCEPT !.state[p[2]][p[1]] = w.age + 1]

ageTakeLife(w, p) ==
    LET w1 == ageIncrementNeighbours(w, p[1], p[2], -1)
    IN  [w1 EXCEPT !.state[p[2]][p[1]] = 0]

RECURSIVE ageInitColumn(_, _, _)
ageInitColumn(w, x, y) ==
    IF y < w.height
    THEN ageInitColumn(IF ageIsAlive(w, x, y)
                       THEN ageIncrementNeighbours(w, x, y, 1) ELSE w,
                       x, y + 1)
    ELSE w

RECURSIVE ageInitColumns(_, _)
ageInitColumns(w, x) ==
    IF x < w.width THEN ageInitColumns(ageInitColumn(w, x, 0), x + 1) ELSE w

ageInitNeighbourCounts(w) == ageInitColumns(w, 0)

AgeWorldNew(x, y, fill) ==
    ageInitNeighbourCounts(
        [age    |-> 0,
         width  |-> x,
         height |-> y,
         state  |-> generateGrid(x, y, fill),
         neighbourCounts |->
             generateGrid(x + 2, y + 2, [i \in 0..(((x + 2) * (y + 2)) - 1) |-> 0])])

\* The body of the decision loop; lists is the pair living / dead.
ageScanCell(w, lists, x, y) ==
    LET n == ageNeighbourCount(w, x, y)
    IN  IF ageIsAlive(w, x, y) /\ (n < 2 \/ n > 3)
        THEN [lists EXCEPT !.dead = Append(@, <<x, y>>)]
        ELSE IF ~ageIsAlive(w, x, y) /\ n = 3
             THEN [lists EXCEPT !.living = Append(@, <<x, y>>)]
             ELSE lists

RECURSIVE ageScanRow(_, _, _, _)
ageScanRow(w, lists, x, y) ==
    IF x < w.width THEN ageScanRow(w, ageScanCell(w, lists, x, y), x + 1, y) ELSE lists

RECURSIVE ageScanRows(_, _, _)
ageScanRows(w, lists, y) ==
    IF y < w.height THEN ageScanRows(w, ageScanRow(w, lists, 0, y), y + 1) ELSE lists

RECURSIVE ageGiveLifeEach(_, _)
ageGiveLifeEach(w, pts) ==
    IF pts = << >> THEN w ELSE ageGiveLifeEach(ageGiveLife(w, Head(pts)), Tail(pts))

RECURSIVE ageTakeLifeEach(_, _)
ageTakeLifeEach(w, pts) ==
    IF pts = << >> THEN w ELSE ageTakeLifeEach(ageTakeLife(w, Head(pts)), Tail(pts))

\* tick that advances age before it applies the births.
ageTick_AgeFirst(w) ==
    LET lists == ageScanRows(w, [living |-> << >>, dead |-> << >>], 0)
        w1 == ageGiveLifeEach([w EXCEPT !.age = @ + 1], lists.living)
        w2 == ageTakeLifeEach(w1, lists.dead)
    IN  [world |-> w2, births |-> lists.living, deaths |-> lists.dead]

\* World.tick(): the World it leaves and the {births, deaths} it returns.
ageTick(w) ==
    LET lists == ageScanRows(w, [living |-> << >>, dead |-> << >>], 0)
        w1 == ageGiveLifeEach(w, lists.living)
        w2 == ageTakeLifeEach(w1, lists.dead)
    IN  [world |-> [w2 EXCEPT !.age = @ + 1],
         births |-> lists.living, deaths |-> lists.dead]

----------------------------------------------------------------------------
(* class Renderer.  The bitmap is the data array of an ImageData: four     *)
(* bytes (red, green, blue, alpha) per canvas pixel, rows of canvas.width  *)
(* pixels.  putImageData copies the bitmap to the canvas unchanged, so the *)
(* bitmap as render leaves it is what the canvas shows.                    *)

fillRed == 66
fillGreen == 31
fillBlue == 255
fillAlpha == 255

\* createImageData(sw, sh) throws IndexSizeError when a side is zero.
createImageDataThrows(sw, sh) == (sw = 0) \/ (sh = 0)

\* A fresh ImageData: every byte 0 (transparent black).
createImageData(sw, sh) == [i \in 0..(((4 * sw) * sh) - 1) |-> 0]

\* Index of the red byte of the pixel at (offsetX, offsetY) inside the block
\* of cell (x, y).
baseIdx_WorldStride(r, x, y, offsetX, offsetY) ==
    LET bitmapY == ((y * r.pixelSize) + offsetY) * 4
        bitmapX == ((x * r.pixelSize) + offsetX) * 4
    IN  (bitmapY * (r.canvas.width \div r.pixelSize)) + bitmapX

baseIdx(r, x, y, offsetX, offsetY) ==
    LET bitmapY == ((y * r.pixelSize) + offsetY) * 4
        bitmapX == ((x * r.pixelSize) + offsetX) * 4
    IN  (bitmapY * r.canvas.width) + bitmapX

\* The start indices the two offset loops visit for cell (x, y).
blockIdxs(r, x, y) ==
    {baseIdx(r, x, y, offsetX, offsetY) :
        offsetX \in 0..(r.pixelSize - 1), offsetY \in 0..(r.pixelSize - 1)}

\* new Renderer(world, container, pixelSize) of the typed-array variant:
\* every pixel of every cell gets the fill colour and alpha 0.  A store
\* outside the data array is ignored.
RendererNew(w, pixelSize) ==
    LET canvas == [width |-> w.width * pixelSize, height |-> w.height * pixelSize]
        r0 == [pixelSize |-> pixelSize, canvas |-> canvas,
               bitmap |-> createImageData(canvas.width, canvas.height)]
        bases == UNION {blockIdxs(r0, p[1], p[2]) :
                            p \in (0..(w.width - 1)) \X (0..(w.height - 1))}
        colour == <<fillRed, fillGreen, fillBlue, 0>>
    IN  [r0 EXCEPT !.bitmap =
            [i \in DOMAIN @ |-> IF (i - (i % 4)) \in bases
                                THEN colour[(i % 4) + 1] ELSE @[i]]]

\* new Renderer(...) of the age-tracking variant: the bitmap stays as
\* createImageData made it.
AgeRendererNew(w, pixelSize) ==
    LET canvas == [width |-> w.width * pixelSize, height |-> w.height * pixelSize]
    IN  [pixelSize |-> pixelSize, canvas |-> canvas,
         bitmap |-> createImageData(canvas.width, canvas.height)]

\* The body run for one point of changes.deaths (alpha = 0) or of
\* changes.births (alpha = fillAlpha): the alpha byte of each pixel of the
\* block of cell (x, y).
setAlpha(r, x, y, alpha) ==
    LET idxs == {b + 3 : b \in blockIdxs(r, x, y)}
    IN  [r EXCEPT !.bitmap = [i \in DOMAIN @ |-> IF i \in idxs THEN alpha ELSE @[i]]]

RECURSIVE setAlphaEach(_, _, _)
setAlphaEach(r, pts, alpha) ==
    IF pts = << >> THEN r
    ELSE setAlphaEach(setAlpha(r, Head(pts)[1], Head(pts)[2], alpha), Tail(pts), alpha)

\* Renderer.render(changes) without its first loop.
render_BirthsOnly(r, ch) == setAlphaEach(r, forEach(ch.births), fillAlpha)

\* Renderer.render(changes) of the typed-array variant: deaths, then births.
render(r, ch) ==
    setAlphaEach(setAlphaEach(r, forEach(ch.deaths), 0), forEach(ch.births), fillAlpha)

\* The body the age-tracking render runs for one born cell: all four bytes.
ageFill(r, x, y) ==
    LET bases == blockIdxs(r, x, y)
        colour == <<fillRed, fillGreen, fillBlue, fillAlpha>>
    IN  [r EXCEPT !.bitmap =
            [i \in DOMAIN @ |-> IF (i - (i % 4)) \in bases
                                THEN colour[(i % 4) + 1] ELSE @[i]]]

RECURSIVE ageFillEach(_, _)
ageFillEach(r, pts) ==
    IF pts = << >> THEN r
    ELSE ageFillEach(ageFill(r, Head(pts)[1], Head(pts)[2]), Tail(pts))

\* Renderer.render(changes) of the age-tracking variant, changes being
\* {births, deaths} lists of points.
ageRender(r, births, deaths) ==
    ageFillEach(setAlphaEach(r, deaths, 0), births)

----------------------------------------------------------------------------
(* The double arithmetic of the ticker.  Every number the ticker computes  *)
(* is (thirds + eps * 2^-47) / 3 milliseconds for two whole numbers thirds *)
(* and eps, eps tiny against 2^47: Date.now() is thirds = 3 * ms, eps = 0, *)
(* and the double 1000.0 / 30 = 33.333333333333336 is thirds = 100,        *)
(* eps = 1.  Numbers are compared by thirds first, then by eps.  Counted   *)
(* in units of 2^-47 / 3 ms the number is n = thirds * 2^47 + eps.  The    *)
(* doubles of [32, 64) ms are the multiples of 2^-47 ms, those with n a    *)
(* multiple of 3; the doubles of [64, 128) ms have n a multiple of 6, and  *)
(* so on binade by binade.  Below 32 ms every number with n a multiple of  *)
(* 3 is a double, and no other number is rounded there.                    *)

Double(thirds, eps) == [thirds |-> thirds, eps |-> eps]

geq(x, y) == (x.thirds > y.thirds) \/ (x.thirds = y.thirds /\ x.eps >= y.eps)

\* The distance between neighbouring doubles at x >= 0, in units of
\* 2^-47 / 3 ms (never finer than 3, see above).
RECURSIVE ulpFrom(_, _, _)
ulpFrom(x, N, limit) ==
    IF geq(x, Double(limit, 0)) THEN ulpFrom(x, 2 * N, 2 * limit) ELSE N

ulp(x) == ulpFrom(x, 3, 3 * 64)

\* 2^e mod N.
RECURSIVE PowMod(_, _)
PowMod(e, N) == IF e = 0 THEN 1 % N ELSE (2 * PowMod(e - 1, N)) % N

\* n mod N for the number x.
nmod(x, N) == ((((x.thirds * PowMod(47, N)) + x.eps) % N) + N) % N

\* The double nearest to x >= 0, ties to the even mantissa.
round(x) ==
    LET N  == ulp(x)
        r  == nmod(x, N)
        lo == [x EXCEPT !.eps = @ - r]
        hi == [x EXCEPT !.eps = @ + (N - r)]
    IN  IF r = 0 THEN x
        ELSE IF 2 * r < N THEN lo
        ELSE IF 2 * r > N THEN hi
        ELSE IF nmod(lo, 2 * N) = 0 THEN lo ELSE hi

\* x - y of two doubles x >= y >= 0.
fsub(x, y) == round(Double(x.thirds - y.thirds, x.eps - y.eps))

\* x % y of two doubles x >= 0, y > 0: x minus the largest whole multiple of
\* y below or at x; the result is a double, no rounding takes place.
RECURSIVE quotient(_, _, _)
quotient(x, y, q) ==
    IF geq(x, Double((q + 1) * y.thirds, (q + 1) * y.eps))
    THEN quotient(x, y, q + 1) ELSE q

fmod(x, y) ==
    LET q == quotient(x, y, 0)
    IN  Double(x.thirds - (q * y.thirds), x.eps - (q * y.eps))

----------------------------------------------------------------------------
(* window.onload and the ticker *)

NoAged ==
    [world |-> [age |-> 0, width |-> 0, height |-> 0,
                state |-> << >>, neighbourCounts |-> << >>],
     births |-> << >>, deaths |-> << >>]

NoStep == [phase |-> "idle", x |-> 0, y |-> 0, i |-> 0]

NoRenderer ==
    [pixelSize |-> 0, canvas |-> [width |-> 0, height |-> 0],
     bitmap |-> createImageData(0, 0)]

\* let lastTick = 0, and no call of the ticker made yet.  ticks and renders
\* count the calls of world.tick and renderer.render; born holds the cells
\* some call of world.tick has listed in changes.births.
NoTicker ==
    [lastTick |-> Double(0, 0), phase |-> "idle", outcome |-> "none",
     ticks |-> 0, renders |-> 0, born |-> {}]

\* A PointSet of MaxPoints slots, nothing pushed.
NoPoints == [set |-> PointSetNew(MaxPoints), pushed |-> << >>]

NoWorld ==
    [width |-> 0, height |-> 0,
     state |-> GridNew(0, 0, << >>), neighbourCounts |-> GridNew(0, 0, << >>)]

Init ==
    /\ size \in {s \in (-3..MaxW) \X (-3..MaxH) : s[1] * s[2] <= MaxCells}
    /\ pc = "load"
    /\ world = NoWorld
    /\ changes = WorldChangesNew(0, 0)
    /\ aged = NoAged
    /\ step = NoStep
    /\ clock = 0
    /\ renderer = NoRenderer
    /\ ticker = NoTicker
    /\ points = NoPoints

\* window.onload up to the first requestAnimationFrame.
onload ==
    /\ pc = "load"
    /\ IF WorldNewThrows(size[1], size[2])
       THEN /\ pc' = "failed"
            /\ UNCHANGED <<world, changes>>
       ELSE \E fill \in [0..((size[1] * size[2]) - 1) -> {0, 1}] :
                /\ world' = WorldNew(size[1], size[2], fill)
                /\ changes' = WorldChangesNew(size[1], size[2])
                /\ pc' = "run"
    /\ UNCHANGED <<size, aged, step, clock, renderer, ticker, points>>

\* One world.tick(changes) made by the ticker.
Tick ==
    /\ pc = "run"
    /\ world' = tick(world, changes).world
    /\ changes' = tick(world, changes).changes
    /\ UNCHANGED <<size, pc, aged, step, clock, renderer, ticker, points>>

Next == onload \/ Tick

Spec == Init /\ [][Next]_vars

----------------------------------------------------------------------------
(* The two World variants run side by side: both pages are loaded with the *)
(* same size, their random fills happen to agree, and each frame ticks     *)
(* both.                                                                   *)

InitPair ==
    /\ size \in {s \in (0..MaxW) \X (0..MaxH) : s[1] * s[2] <= MaxAgedCells}
    /\ pc = "load"
    /\ world = NoWorld
    /\ changes = WorldChangesNew(0, 0)
    /\ aged = NoAged
    /\ step = NoStep
    /\ clock = 0
    /\ renderer = NoRenderer
    /\ ticker = NoTicker
    /\ points = NoPoints

onloadPair ==
    /\ pc = "load"
    /\ \E fill \in [0..((size[1] * size[2]) - 1) -> {0, 1}] :
           /\ world' = WorldNew(size[1], size[2], fill)
           /\ changes' = WorldChangesNew(size[1], size[2])
           /\ aged' = [world |-> AgeWorldNew(size[1], size[2], fill),
                       births |-> << >>, deaths |-> << >>]
    /\ pc' = "run"
    /\ UNCHANGED <<size, step, clock, renderer, ticker, points>>

TickPair ==
    /\ pc = "run"
    /\ aged.world.age < MaxAge
    /\ world' = tick(world, changes).world
    /\ changes' = tick(world, changes).changes
    /\ aged' = ageTick(aged.world)
    /\ ticker' = [ticker EXCEPT !.ticks = @ + 1]
    /\ UNCHANGED <<size, pc, step, clock, renderer, points>>

NextPair == onloadPair \/ TickPair

SpecPair == InitPair /\ [][NextPair]_vars

----------------------------------------------------------------------------
(* World.tick(changes) followed statement by statement: clear, one pass of *)
(* the loop body (or one loop exit) per step, one forEach callback per     *)
(* step.                                                                   *)

InitSteps ==
    /\ size \in {s \in (-3..MaxW) \X (-3..MaxH) : s[1] * s[2] <= MaxStepCells}
    /\ pc = "load"
    /\ world = NoWorld
    /\ changes = WorldChangesNew(0, 0)
    /\ aged = NoAged
    /\ step = NoStep
    /\ clock = 0
    /\ renderer = NoRenderer
    /\ ticker = NoTicker
    /\ points = NoPoints

\* changes.clear() and entry into the loops.
tickClear ==
    /\ pc = "run"
    /\ step.phase = "idle"
    /\ changes' = WorldChangesClear(changes)
    /\ step' = [phase |-> "scan", x |-> 0, y |-> 0, i |-> 0]
    /\ UNCHANGED <<size, pc, world, aged, clock, renderer, ticker, points>>

\* The two nested for loops.
tickScan ==
    /\ step.phase = "scan"
    /\ IF step.y < world.height
       THEN IF step.x < world.width
            THEN /\ world' = scanBody(world, changes, step.x, step.y).world
                 /\ changes' = scanBody(world, changes, step.x, step.y).changes
                 /\ step' = [step EXCEPT !.x = @ + 1]
            ELSE /\ step' = [step EXCEPT !.x = 0, !.y = @ + 1]
                 /\ UNCHANGED <<world, changes>>
       ELSE /\ step' = [step EXCEPT !.phase = "deaths", !.i = 0]
            /\ UNCHANGED <<world, changes>>
    /\ UNCHANGED <<size, pc, aged, clock, renderer, ticker, points>>

\* changes.deaths.forEach((x, y) => { this.takeLife(x, y) })
tickDeaths ==
    /\ step.phase = "deaths"
    /\ IF step.i < changes.deaths.idx
       THEN /\ world' = takeLife(world, changes.deaths.xs[step.i], changes.deaths.ys[step.i])
            /\ step' = [step EXCEPT !.i = @ + 1]
       ELSE /\ step' = [step EXCEPT !.phase = "births", !.i = 0]
            /\ UNCHANGED world
    /\ UNCHANGED <<size, pc, changes, aged, clock, renderer, ticker, points>>

\* changes.births.forEach((x, y) => { this.giveLife(x, y) })
tickBirths ==
    /\ step.phase = "births"
    /\ IF step.i < changes.births.idx
       THEN /\ world' = giveLife(world, changes.births.xs[step.i], changes.births.ys[step.i])
            /\ step' = [step EXCEPT !.i = @ + 1]
       ELSE /\ step' = NoStep
            /\ UNCHANGED world
    /\ UNCHANGED <<size, pc, changes, aged, clock, renderer, ticker, points>>

NextSteps == onload \/ tickClear \/ tickScan \/ tickDeaths \/ tickBirths

SpecSteps == InitSteps /\ [][NextSteps]_vars

\* The same steps on Worlds of at most MaxTermCells cells; a tick that has
\* started keeps running, statement after statement.
InitTerm ==
    /\ size \in {s \in (-3..MaxW) \X (-3..MaxH) : s[1] * s[2] <= MaxTermCells}
    /\ pc = "load"
    /\ world = NoWorld
    /\ changes = WorldChangesNew(0, 0)
    /\ aged = NoAged
    /\ step = NoStep
    /\ clock = 0
    /\ renderer = NoRenderer
    /\ ticker = NoTicker
    /\ points = NoPoints

SpecTerm ==
    /\ InitTerm
    /\ [][NextSteps]_vars
    /\ WF_vars(tickScan \/ tickDeaths \/ tickBirths)

----------------------------------------------------------------------------
(* The whole page of the typed-array variant: window.onload builds the     *)
(* World, the Renderer and the change set, and the browser then calls the  *)
(* ticker once per animation frame.  A call of the ticker is followed in   *)
(* three steps: the decision, the call of world.tick and the call of       *)
(* renderer.render.  The clock is read only at the start of a call, so it  *)
(* is advanced only between calls.                                         *)

maxFPS == 30

\* const msPerFrame = (1000.0 / maxFPS): the double nearest to the quotient.
msPerFrame == round(Double((3 * 1000) \div maxFPS, 0))

Date_now == Double(3 * clock, 0)

\* if (delta >= msPerFrame)
elapsed_Always(delta) == geq(delta, Double(0, 0))

elapsed(delta) == geq(delta, msPerFrame)

\* now - (delta % msPerFrame), the new lastTick.
carryOver_Reset(now, delta) == now

carryOver(now, delta) == fsub(now, fmod(delta, msPerFrame))

\* The statement the ticker runs after a call it made: renderer.render
\* follows world.tick, and the ticker returns after renderer.render.
callAfter_NoRender(call) == "idle"

callAfter(call) == IF call = "tick" THEN "render" ELSE "idle"

InitPage ==
    /\ size \in {s \in (0..MaxW) \X (0..MaxH) : s[1] * s[2] <= MaxPageCells}
    /\ pc = "load"
    /\ world = NoWorld
    /\ changes = WorldChangesNew(0, 0)
    /\ aged = NoAged
    /\ step = NoStep
    /\ clock = 0
    /\ renderer = NoRenderer
    /\ ticker = NoTicker
    /\ points = NoPoints

\* window.onload, Renderer included, up to the first requestAnimationFrame.
onloadPage ==
    /\ pc = "load"
    /\ \E pixelSize \in 1..MaxPixelSize :
        IF \/ WorldNewThrows(size[1], size[2])
           \/ createImageDataThrows(size[1] * pixelSize, size[2] * pixelSize)
        THEN /\ pc' = "failed"
             /\ UNCHANGED <<world, changes, renderer>>
        ELSE \E fill \in [0..((size[1] * size[2]) - 1) -> {0, 1}] :
                /\ world' = WorldNew(size[1], size[2], fill)
                /\ renderer' = RendererNew(world', pixelSize)
                /\ changes' = WorldChangesNew(size[1], size[2])
                /\ pc' = "run"
    /\ UNCHANGED <<size, aged, step, clock, ticker, points>>

\* A millisecond passes while no call of the ticker is under way.
DateAdvanceTo(limit) ==
    /\ ticker.phase = "idle"
    /\ clock < limit
    /\ clock' = clock + 1
    /\ UNCHANGED <<size, pc, world, changes, aged, step, renderer, ticker, points>>

DateAdvance == DateAdvanceTo(MaxClock)

\* A call of the ticker up to its branch: now, delta, and lastTick if the
\* interval has elapsed.
tickerCall ==
    /\ pc = "run"
    /\ ticker.phase = "idle"
    /\ LET now == Date_now
           delta == fsub(now, ticker.lastTick)
       IN  IF elapsed(delta)
           THEN ticker' = [ticker EXCEPT !.lastTick = carryOver(now, delta),
                                         !.phase = "tick",
                                         !.outcome = "ticked"]
           ELSE ticker' = [ticker EXCEPT !.outcome = "skipped"]
    /\ UNCHANGED <<size, pc, world, changes, aged, step, clock, renderer, points>>

\* world.tick(changes) inside the ticker.
tickerTick ==
    /\ pc = "run"
    /\ ticker.phase = "tick"
    /\ world' = tick(world, changes).world
    /\ changes' = tick(world, changes).changes
    /\ ticker' = [ticker EXCEPT !.phase = callAfter("tick"), !.ticks = @ + 1,
                                 !.born = @ \cup {forEach(changes'.births)[i] :
                                                     i \in 1..Len(forEach(changes'.births))}]
    /\ UNCHANGED <<size, pc, aged, step, clock, renderer, points>>

\* renderer.render(changes) inside the ticker, and the ticker's return.
tickerRender ==
    /\ pc = "run"
    /\ ticker.phase = "render"
    /\ renderer' = render(renderer, changes)
    /\ ticker' = [ticker EXCEPT !.phase = callAfter("render"), !.renders = @ + 1]
    /\ UNCHANGED <<size, pc, world, changes, aged, step, clock, points>>

NextPage == onloadPage \/ DateAdvance \/ tickerCall \/ tickerTick \/ tickerRender

SpecPage == InitPage /\ [][NextPage]_vars

----------------------------------------------------------------------------
(* The same page with a World of a single cell, followed for               *)
(* MaxTickerClock milliseconds: long runs of the ticker.                   *)

InitTicker ==
    /\ size = <<1, 1>>
    /\ pc = "load"
    /\ world = NoWorld
    /\ changes = WorldChangesNew(0, 0)
    /\ aged = NoAged
    /\ step = NoStep
    /\ clock = 0
    /\ renderer = NoRenderer
    /\ ticker = NoTicker
    /\ points = NoPoints

DateAdvanceLong == DateAdvanceTo(MaxTickerClock)

NextTicker == onloadPage \/ DateAdvanceLong \/ tickerCall \/ tickerTick \/ tickerRender

SpecTicker == InitTicker /\ [][NextTicker]_vars

----------------------------------------------------------------------------
(* A PointSet on its own, used the way World.tick uses births and deaths:  *)
(* cleared, then handed cells in the order of the scan, row after row.     *)
(* The cells are those of the first two and the last two columns and rows  *)
(* of a World of MaxCoord + 1 columns and rows.                            *)

Coords == {0, 1, MaxCoord - 1, MaxCoord}

\* Cell p comes before cell q in the scan of the two nested loops.
scannedBefore(p, q) == (p[2] < q[2]) \/ (p[2] = q[2] /\ p[1] < q[1])

InitPoints ==
    /\ size = <<MaxCoord + 1, MaxCoord + 1>>
    /\ pc = "load"
    /\ world = NoWorld
    /\ changes = WorldChangesNew(0, 0)
    /\ aged = NoAged
    /\ step = NoStep
    /\ clock = 0
    /\ renderer = NoRenderer
    /\ ticker = NoTicker
    /\ points = NoPoints

\* changes.clear() on one of the two lists.
pointsClear ==
    /\ points' = [set |-> PointSetClear(points.set), pushed |-> << >>]
    /\ UNCHANGED <<size, pc, world, changes, aged, step, clock, renderer, ticker>>

\* push(x, y) on one of the two lists, for a cell the scan comes to after
\* the cell pushed last.
pointsPush ==
    /\ points.set.idx < MaxPoints
    /\ \E x \in Coords, y \in Coords :
        /\ x < size[1]
        /\ y < size[2]
        /\ (points.pushed # << >>) =>
               scannedBefore(points.pushed[Len(points.pushed)], <<x, y>>)
        /\ points' = [set |-> push(points.set, x, y),
                      pushed |-> Append(points.pushed, <<x, y>>)]
    /\ UNCHANGED <<size, pc, world, changes, aged, step, clock, renderer, ticker>>

NextPoints == pointsClear \/ pointsPush

SpecPoints == InitPoints /\ [][NextPoints]_vars

----------------------------------------------------------------------------
(* Reference notions the properties are stated with.  They read the cell   *)
(* array directly and recount from scratch; they use none of the World's   *)
(* methods and never look at neighbourCounts.                              *)

Cells(w) == (0..(w.width - 1)) \X (0..(w.height - 1))

CellAlive(w, p) == w.state.grid[(p[2] * w.width) + p[1]] # 0

Adjacent(p, q) ==
    /\ p # q
    /\ p[1] - q[1] \in -1..1
    /\ p[2] - q[2] \in -1..1

\* Number of alive cells among the in-range neighbours of p; off-grid
\* positions count as dead.
LiveNeighbours(w, p) ==
    Cardinality({q \in Cells(w) : Adjacent(p, q) /\ CellAlive(w, q)})

AliveSet(w) == {p \in Cells(w) : CellAlive(w, p)}

\* The B3/S23 rule applied to one cell of configuration w.
LifeRule(w, p) ==
    \/ CellAlive(w, p) /\ LiveNeighbours(w, p) \in {2, 3}
    \/ ~CellAlive(w, p) /\ LiveNeighbours(w, p) = 3

SeqToSet(s) == {s[i] : i \in 1..Len(s)}

Births(ch) == forEach(ch.births)
Deaths(ch) == forEach(ch.deaths)

----------------------------------------------------------------------------
\* C1: between ticks (after construction and after every tick) the
\* neighbourCount of every in-range cell equals the number of alive cells
\* among its in-range neighbours, recounted from scratch.
C1_NeighbourCountExact ==
    pc = "run" =>
        \A p \in Cells(world) :
            neighbourCount(world, p[1], p[2]) = LiveNeighbours(world, p)

\* A tick with births and deaths has run and an alive corner cell (whose
\* increments went into the padding ring) has a neighbour.
C1_Witness ==
    /\ pc = "run"
    /\ changes.births.idx > 0
    /\ changes.deaths.idx > 0
    /\ world.width >= 2 /\ world.height >= 2
    /\ CellAlive(world, <<0, 0>>)
    /\ neighbourCount(world, 0, 0) >= 1

\* C2: one tick is one B3/S23 generation of the pre-tick configuration:
\* a cell is alive after the tick iff the rule, evaluated on neighbour
\* numbers recounted from the pre-tick cells, says so.
C2_TickIsLifeGeneration ==
    [][Tick => \A p \in Cells(world) : CellAlive(world', p) <=> LifeRule(world, p)]_vars

\* A tick has just recorded an underpopulation death, a birth, and left a
\* survivor.
C2_Witness ==
    /\ pc = "run"
    /\ changes.births.idx >= 1
    /\ changes.deaths.idx >= 1
    /\ \E p \in AliveSet(world) : p \notin SeqToSet(Births(changes))

\* C3: delta completeness: the cells whose status differs before and after
\* a tick are exactly the reported births and deaths; born cells were dead
\* and are alive, died cells were alive and are dead.
C3_DeltaComplete ==
    [][Tick =>
        /\ {p \in Cells(world) : CellAlive(world, p) # CellAlive(world', p)}
               = SeqToSet(Births(changes')) \cup SeqToSet(Deaths(changes'))
        /\ \A p \in SeqToSet(Births(changes')) :
               p \in Cells(world) /\ ~CellAlive(world, p) /\ CellAlive(world', p)
        /\ \A p \in SeqToSet(Deaths(changes')) :
               p \in Cells(world) /\ CellAlive(world, p) /\ ~CellAlive(world', p)
      ]_vars

\* A tick has reported at least two births and two deaths.
C3_Witness ==
    /\ pc = "run"
    /\ changes.births.idx >= 2
    /\ changes.deaths.idx >= 2

\* C4: a reused change set is not cumulative: after a tick, forEach over
\* births and over deaths visits exactly the cells that tick selected,
\* each once, whatever earlier ticks left in the backing arrays.
C4_NotCumulative ==
    [][Tick =>
        /\ SeqToSet(Births(changes')) =
               {p \in Cells(world) : ~CellAlive(world, p) /\ LiveNeighbours(world, p) = 3}
        /\ SeqToSet(Deaths(changes')) =
               {p \in Cells(world) : CellAlive(world, p) /\ LiveNeighbours(world, p) \notin {2, 3}}
        /\ Cardinality(SeqToSet(Births(changes'))) = changes'.births.idx
        /\ Cardinality(SeqToSet(Deaths(changes'))) = changes'.deaths.idx
      ]_vars

\* After a tick the backing arrays still hold an entry of an earlier tick
\* beyond idx, for births and for deaths.
C4_Witness ==
    /\ pc = "run"
    /\ \E i \in DOMAIN changes.births.xs :
           i >= changes.births.idx /\ (changes.births.xs[i] # 0 \/ changes.births.ys[i] # 0)
    /\ \E i \in DOMAIN changes.deaths.xs :
           i >= changes.deaths.idx /\ (changes.deaths.xs[i] # 0 \/ changes.deaths.ys[i] # 0)

\* C6: blinker: on a grid of at least 3x3 whose alive cells are exactly
\* (1,0),(1,1),(1,2), a tick leaves exactly (0,1),(1,1),(2,1) alive, and a
\* tick of that configuration leaves exactly (1,0),(1,1),(1,2) alive, so
\* the two configurations alternate on every later tick.
BlinkerA == {<<1, 0>>, <<1, 1>>, <<1, 2>>}
BlinkerB == {<<0, 1>>, <<1, 1>>, <<2, 1>>}

C6_Blinker ==
    [][(Tick /\ world.width >= 3 /\ world.height >= 3) =>
        /\ AliveSet(world) = BlinkerA => AliveSet(world') = BlinkerB
        /\ AliveSet(world) = BlinkerB => AliveSet(world') = BlinkerA
      ]_vars

\* The blinker is back in its first form after a tick that turned the
\* second form into it.
C6_Witness ==
    /\ pc = "run"
    /\ AliveSet(world) = BlinkerA
    /\ Births(changes) = << <<1, 0>>, <<1, 2>> >>
    /\ Deaths(changes) = << <<0, 1>>, <<2, 1>> >>

\* C7: still life: when the only alive cells form a 2x2 block, a tick
\* reports no births and no deaths and leaves CellState and NeighbourCount
\* as they were (so the block is there for the next tick, forever).
IsBlock(w) ==
    \E x \in 0..(w.width - 2), y \in 0..(w.height - 2) :
        AliveSet(w) = {<<x, y>>, <<x + 1, y>>, <<x, y + 1>>, <<x + 1, y + 1>>}

C7_BlockStable ==
    [][(Tick /\ IsBlock(world)) =>
        /\ Births(changes') = << >>
        /\ Deaths(changes') = << >>
        /\ world'.state = world.state
        /\ world'.neighbourCounts = world.neighbourCounts
        /\ IsBlock(world')
      ]_vars

\* A block that has been ticked: the change set is empty but its births
\* array still holds the cell whose birth completed the block, so the last
\* tick ran on the block itself.
C7_Witness ==
    /\ pc = "run"
    /\ IsBlock(world)
    /\ changes.births.idx = 0
    /\ changes.deaths.idx = 0
    /\ \E i \in DOMAIN changes.births.xs :
           CellAlive(world, <<changes.births.xs[i], changes.births.ys[i]>>)
           /\ <<changes.births.xs[i], changes.births.ys[i]>> # <<0, 0>>

\* C8: no-op tick: when no alive cell has fewer than 2 or more than 3 live
\* neighbours and no dead cell has exactly 3 (recounted from the cells), a
\* tick yields empty births and deaths and leaves the World unchanged.
Quiet(w) ==
    \A p \in Cells(w) :
        /\ CellAlive(w, p) => LiveNeighbours(w, p) \in {2, 3}
        /\ ~CellAlive(w, p) => LiveNeighbours(w, p) # 3

C8_NoOpTick ==
    [][(Tick /\ Quiet(world)) =>
        /\ changes'.births.idx = 0
        /\ changes'.deaths.idx = 0
        /\ world' = world
      ]_vars

\* A quiet configuration other than a block or the empty grid has been
\* ticked: the change set is empty but holds entries of the tick before.
C8_Witness ==
    /\ pc = "run"
    /\ Quiet(world)
    /\ ~IsBlock(world)
    /\ AliveSet(world) # {}
    /\ changes.births.idx = 0
    /\ changes.deaths.idx = 0
    /\ \E i \in DOMAIN changes.deaths.xs :
           changes.deaths.xs[i] # 0 \/ changes.deaths.ys[i] # 0

\* C9: boundary: on grids of at least 2x2 a corner cell's neighbourCount
\* is at most 3 and another edge cell's at most 5; neighbourCount of an
\* in-range cell and the outcome of a tick (cells, births, deaths, in-range
\* counts) are the same whatever the padding-ring slots hold.
PaddingSlots(w) ==
    {i \in DOMAIN w.neighbourCounts.grid :
        \/ i % (w.width + 2) \in {0, w.width + 1}
        \/ i \div (w.width + 2) \in {0, w.height + 1}}

\* w with every padding-ring slot overwritten by v.
Scrambled(w, v) ==
    [w EXCEPT !.neighbourCounts.grid =
        [i \in DOMAIN @ |-> IF i \in PaddingSlots(w) THEN v ELSE @[i]]]

OnEdgeX(w, p) == p[1] \in {0, w.width - 1}
OnEdgeY(w, p) == p[2] \in {0, w.height - 1}

----------------------------------------------------------------------------
(* Properties of the two variants run side by side (SpecPair).             *)

AgedCellValue(w, p) == w.state[p[2]][p[1]]

AgedAliveSet(w) == {p \in Cells(w) : AgedCellValue(w, p) # 0}

\* C11 as claimed: in every World variant every CellState entry is 0 or 1.
C11_CellStateBinary ==
    pc = "run" =>
        /\ \A i \in DOMAIN world.state.grid : world.state.grid[i] \in {0, 1}
        /\ \A p \in Cells(aged.world) : AgedCellValue(aged.world, p) \in {0, 1}

\* C11 as amended: every CellState entry of the typed-array World is 0 or
\* 1; an entry of the age-tracking World is 0 or a number from 1 to
\* max(1, age) (1 from the initial fill, age + 1 at the time of a birth).
C11_CellStateValues ==
    pc = "run" =>
        /\ \A i \in DOMAIN world.state.grid : world.state.grid[i] \in {0, 1}
        /\ \A p \in Cells(aged.world) :
               AgedCellValue(aged.world, p)
                   \in 0..(IF aged.world.age > 1 THEN aged.world.age ELSE 1)

\* After three ticks a cell born in the third tick stores 3 in the
\* age-tracking World and 1 in the typed-array World.
C11_Witness ==
    /\ pc = "run"
    /\ aged.world.age = 3
    /\ \E p \in Cells(world) :
           /\ AgedCellValue(aged.world, p) = 3
           /\ world.state.grid[(p[2] * world.width) + p[1]] = 1

\* C13: run side by side from the same initial cells, the age-tracking
\* World (fresh lists, births applied first, age + 1 stored) and the
\* typed-array World (reused change set, deaths applied first, 1 stored)
\* have after every tick the same alive cells, the same neighbourCount for
\* every in-range cell and the same births and deaths sequences.
C13_VariantsAgree ==
    pc = "run" =>
        /\ AliveSet(world) = AgedAliveSet(aged.world)
        /\ \A p \in Cells(world) :
               neighbourCount(world, p[1], p[2])
                   = ageNeighbourCount(aged.world, p[1], p[2])
        /\ Births(changes) = aged.births
        /\ Deaths(changes) = aged.deaths

\* Two ticks have run and the last one had births and deaths in both
\* variants.
C13_Witness ==
    /\ pc = "run"
    /\ aged.world.age = 2
    /\ Len(aged.births) >= 1
    /\ Len(aged.deaths) >= 1
    /\ changes.births.idx >= 1
    /\ changes.deaths.idx >= 1

\* C25: in the age-tracking World age is the number of ticks completed and
\* a tick adds exactly 1 to it; every entry of state is between 0 and
\* max(1, age) and isAlive is true exactly of the entries from 1 up; after
\* construction a live cell stores 1; the k-th tick stores k in each cell it
\* lists in births and 0 in each cell it lists in deaths, and leaves every
\* other entry as it was, so a cell alive since construction still stores 1
\* and a cell born in the k-th tick stores k for as long as it lives.
C25_AgeStamps ==
    /\ [](pc = "run" =>
            /\ aged.world.age = ticker.ticks
            /\ \A p \in Cells(aged.world) :
                   /\ AgedCellValue(aged.world, p)
                          \in 0..(IF aged.world.age > 1 THEN aged.world.age ELSE 1)
                   /\ ageIsAlive(aged.world, p[1], p[2])
                          <=> (AgedCellValue(aged.world, p) >= 1)
                   /\ (p \in SeqToSet(aged.births))
                          => ageIsAlive(aged.world, p[1], p[2]))
    /\ [][onloadPair =>
            /\ aged'.world.age = 0
            /\ \A p \in Cells(aged'.world) :
                   AgedCellValue(aged'.world, p)
                       = IF CellAlive(world', p) THEN 1 ELSE 0]_vars
    /\ [][TickPair =>
            /\ aged'.world.age = aged.world.age + 1
            /\ \A p \in Cells(aged.world) :
                   AgedCellValue(aged'.world, p)
                       = IF p \in SeqToSet(aged'.births) THEN ticker'.ticks
                         ELSE IF p \in SeqToSet(aged'.deaths) THEN 0
                         ELSE AgedCellValue(aged.world, p)]_vars

\* After three ticks the World holds a cell alive since construction, which
\* stores 1, next to a cell born in the second tick, which stores 2, and a
\* cell born in the third, which stores 3.
C25_Witness ==
    /\ pc = "run"
    /\ ticker.ticks = 3
    /\ aged.world.age = 3
    /\ \E p, q, r \in Cells(aged.world) :
           /\ AgedCellValue(aged.world, p) = 1
           /\ AgedCellValue(aged.world, q) = 2
           /\ AgedCellValue(aged.world, r) = 3

----------------------------------------------------------------------------
(* Properties of a tick followed statement by statement (SpecSteps).       *)

Injective(s) == \A i, j \in 1..Len(s) : s[i] = s[j] => i = j

\* The cell handed to the callback that the forEach of the current phase
\* calls next.
NextDeath == <<changes.deaths.xs[step.i], changes.deaths.ys[step.i]>>
NextBirth == <<changes.births.xs[step.i], changes.births.ys[step.i]>>

\* C12: every NeighbourCount slot, padding ring included, holds a value in
\* 0..8 in every state, between the statements of a tick too: no decrement
\* of takeLife wraps a slot of the Uint8Array to 255.
C12_CountsInRange ==
    pc = "run" =>
        \A i \in DOMAIN world.neighbourCounts.grid :
            world.neighbourCounts.grid[i] \in 0..8

\* In the middle of the deaths, takeLife has just brought the padding
\* corner slot next to the dead cell (0,0) down to 0.
C12_Witness ==
    /\ pc = "run"
    /\ step.phase = "deaths"
    /\ step.i >= 1
    /\ changes.deaths.xs[step.i - 1] = 0
    /\ changes.deaths.ys[step.i - 1] = 0
    /\ world.neighbourCounts.grid[0] = 0
    /\ \E i \in DOMAIN world.neighbourCounts.grid : world.neighbourCounts.grid[i] >= 3

\* C17: at every statement of every tick births.idx and deaths.idx are
\* each at most the capacity width * height of their arrays, and so is
\* their sum; hence no push writes past the end of xs / ys.
C17_Capacity ==
    pc = "run" =>
        /\ changes.births.idx + changes.deaths.idx <= world.width * world.height
        /\ changes.births.idx <= Cardinality(DOMAIN changes.births.xs)
        /\ changes.deaths.idx <= Cardinality(DOMAIN changes.deaths.xs)
        /\ Cardinality(DOMAIN changes.births.xs) = world.width * world.height
        /\ Cardinality(DOMAIN changes.deaths.ys) = world.width * world.height

\* A scan of a world of at least 4 cells has filled the change set to the
\* last slot: every cell is a birth or a death.
C17_Witness ==
    /\ pc = "run"
    /\ world.width * world.height >= 4
    /\ world.width >= 1
    /\ changes.births.idx + changes.deaths.idx = world.width * world.height

\* C18: two-phase tick: no pass of the decision loop modifies CellState or
\* NeighbourCount, and the World is modified only by the forEach callbacks
\* that run after the loops have left the last row.
C18_TwoPhase ==
    [][/\ step.phase = "scan" => world' = world
       /\ (pc = "run" /\ world' # world) =>
              /\ step.phase \in {"deaths", "births"}
              /\ step.y >= world.height
      ]_vars

\* In the middle of the scan a cell is already recorded as a death and is
\* still alive, and a recorded birth is still dead.
C18_Witness ==
    /\ pc = "run"
    /\ step.phase = "scan"
    /\ step.y < world.height
    /\ changes.deaths.idx >= 1
    /\ changes.births.idx >= 1
    /\ CellAlive(world, <<changes.deaths.xs[0], changes.deaths.ys[0]>>)
    /\ ~CellAlive(world, <<changes.births.xs[0], changes.births.ys[0]>>)

\* C19: takeLife is called only on a cell alive at that moment, giveLife
\* only on a cell dead at that moment, and no coordinate is twice in
\* births, twice in deaths, or in both.
C19_CallsOnRightCells ==
    pc = "run" =>
        /\ (step.phase = "deaths" /\ step.i < changes.deaths.idx) =>
               NextDeath \in Cells(world) /\ CellAlive(world, NextDeath)
        /\ (step.phase = "births" /\ step.i < changes.births.idx) =>
               NextBirth \in Cells(world) /\ ~CellAlive(world, NextBirth)
        /\ Injective(Births(changes))
        /\ Injective(Deaths(changes))
        /\ SeqToSet(Births(changes)) \cap SeqToSet(Deaths(changes)) = {}

\* Between two giveLife calls of a tick that also had two deaths.
C19_Witness ==
    /\ pc = "run"
    /\ step.phase = "births"
    /\ step.i = 1
    /\ changes.births.idx >= 2
    /\ changes.deaths.idx >= 2

----------------------------------------------------------------------------
(* Properties of the page: ticker and Renderer (SpecPage).                 *)

\* The pixels of cell p on the canvas: columns p[1]*pixelSize .. +pixelSize-1,
\* rows p[2]*pixelSize .. +pixelSize-1; pixel (col, row) has its four bytes
\* at 4 * (row * canvas.width + col) .. + 3.
BlockPixels(r, p) ==
    {(4 * ((row * r.canvas.width) + col)) :
        col \in (p[1] * r.pixelSize)..(((p[1] + 1) * r.pixelSize) - 1),
        row \in (p[2] * r.pixelSize)..(((p[2] + 1) * r.pixelSize) - 1)}

BlockBytes(r, p) == {b + k : b \in BlockPixels(r, p), k \in 0..3}

BlockAlphas(r, p) == {b + 3 : b \in BlockPixels(r, p)}

Changed(ch) == SeqToSet(Births(ch)) \cup SeqToSet(Deaths(ch))

\* The bytes at which bitmap b2 differs from bitmap b1.
Touched(b1, b2) == {i \in DOMAIN b1 : b2[i] # b1[i]}

C15_DisplayShowsState ==
    (pc = "run" /\ ticker.phase = "idle" /\ ticker.renders >= 1) =>
        \A p \in Cells(world) :
            \A i \in BlockAlphas(renderer, p) :
                renderer.bitmap[i] = IF CellAlive(world, p) THEN fillAlpha ELSE 0

\* C16: a render changes bitmap bytes only inside the blocks of the cells
\* listed in births or deaths, in the typed-array Renderer and in the
\* age-tracking one alike, and the indices the offset loops compute for two
\* different cells never coincide.
C16_RenderFrame ==
    [][tickerRender =>
        /\ DOMAIN renderer'.bitmap = DOMAIN renderer.bitmap
        /\ Touched(renderer.bitmap, renderer'.bitmap)
               \subseteq UNION {BlockBytes(renderer, p) : p \in Changed(changes)}
        /\ Touched(renderer.bitmap,
                   ageRender(renderer, Births(changes), Deaths(changes)).bitmap)
               \subseteq UNION {BlockBytes(renderer, p) : p \in Changed(changes)}
        /\ \A p, q \in Cells(world) :
               p # q => \A b \in blockIdxs(renderer, p[1], p[2]) :
                            \A c \in blockIdxs(renderer, q[1], q[2]) :
                                \A j, k \in 0..3 : b + j # c + k]_vars

\* A render has just run that painted some cells and left others alone, with
\* blocks of more than one pixel.
C16_Witness ==
    /\ pc = "run"
    /\ ticker.phase = "idle"
    /\ ticker.renders >= 1
    /\ renderer.pixelSize >= 2
    /\ Births(changes) # << >>
    /\ Deaths(changes) # << >>
    /\ Changed(changes) # Cells(world)

\* C20: world.tick and renderer.render alternate, starting with world.tick:
\* a tick starts only when every earlier tick has been rendered, a render
\* runs only when exactly one tick is waiting for it, it paints the cells of
\* the change set that tick left, and the change set is not written while a
\* tick waits for its render.
C20_TickRenderAlternate ==
    /\ [](/\ ticker.renders <= ticker.ticks
          /\ ticker.ticks <= ticker.renders + 1
          /\ (ticker.phase = "render") <=> (ticker.ticks = ticker.renders + 1))
    /\ [][/\ (ticker'.ticks # ticker.ticks) =>
                 /\ ticker.ticks = ticker.renders
                 /\ ticker'.ticks = ticker.ticks + 1
                 /\ ticker'.renders = ticker.renders
          /\ (ticker'.renders # ticker.renders) =>
                 /\ ticker.ticks = ticker.renders + 1
                 /\ ticker'.renders = ticker.renders + 1
                 /\ ticker'.ticks = ticker.ticks
                 /\ \A i \in 1..Len(Births(changes)) :
                        \A b \in BlockAlphas(renderer, Births(changes)[i]) :
                            renderer'.bitmap[b] = fillAlpha
                 /\ \A i \in 1..Len(Deaths(changes)) :
                        \A b \in BlockAlphas(renderer, Deaths(changes)[i]) :
                            renderer'.bitmap[b] = 0
          /\ (ticker.ticks = ticker.renders + 1) => (changes' = changes)
          /\ (pc = "run" /\ renderer' # renderer) => (ticker'.renders # ticker.renders)
         ]_vars

\* The second render has run, of a change set that is not empty.
C20_Witness ==
    /\ pc = "run"
    /\ ticker.phase = "idle"
    /\ ticker.ticks = 2
    /\ ticker.renders = 2
    /\ Births(changes) # << >>

\* Some pixel of the block of cell p shows on the canvas.
Shown(r, p) == \E i \in BlockAlphas(r, p) : r.bitmap[i] # 0

\* Every pixel of the block of cell p is opaque if p is alive in w and
\* transparent if it is dead.
DisplayedCorrectly(r, w, p) ==
    \A i \in BlockAlphas(r, p) :
        r.bitmap[i] = IF CellAlive(w, p) THEN fillAlpha ELSE 0

\* C24: whenever the ticker has returned, after any number of tick and
\* render pairs, every cell with a pixel that shows is alive in the World,
\* and every cell that some tick has listed in births has all its pixels
\* opaque if it is alive and all transparent if it is dead.
C24_NoDeadCellShown ==
    (pc = "run" /\ ticker.phase = "idle") =>
        \A p \in Cells(world) :
            /\ Shown(renderer, p) => CellAlive(world, p)
            /\ (p \in ticker.born) => DisplayedCorrectly(renderer, world, p)

\* After the second render, with blocks of more than one pixel: a cell the
\* first tick listed in births and the first render painted has died in the
\* second tick, and its block is transparent again.
C24_Witness ==
    /\ pc = "run"
    /\ ticker.phase = "idle"
    /\ ticker.renders = 2
    /\ renderer.pixelSize >= 2
    /\ \E p \in ticker.born : ~CellAlive(world, p) /\ ~Shown(renderer, p)

----------------------------------------------------------------------------
(* Properties of long runs of the ticker (SpecTicker).  Sums, differences  *)
(* and multiples are exact here, not rounded.                              *)

times(k, x) == Double(k * x.thirds, k * x.eps)

difference(x, y) == Double(x.thirds - y.thirds, x.eps - y.eps)

plusEps(x, e) == Double(x.thirds, x.eps + e)

Zero == Double(0, 0)

\* x is a whole multiple k * y, k >= 0, of y > 0.
IsMultiple(x, y) == \E k \in 0..(x.thirds \div y.thirds) : x = times(k, y)

\* x and y are at most e units of 2^-47 / 3 ms apart.
Within(x, y, e) == x.thirds = y.thirds /\ x.eps - y.eps \in (0 - e)..e

\* C21 as stated: lastTick is always a whole multiple of msPerFrame and
\* never exceeds now; a performed tick advances lastTick by at least
\* msPerFrame and leaves 0 <= now - lastTick < msPerFrame.
C21_DriftCarryOver ==
    /\ [](/\ IsMultiple(ticker.lastTick, msPerFrame)
          /\ geq(Date_now, ticker.lastTick))
    /\ [][(ticker'.lastTick # ticker.lastTick) =>
            /\ geq(difference(ticker'.lastTick, ticker.lastTick), msPerFrame)
            /\ geq(difference(Date_now, ticker'.lastTick), Zero)
            /\ ~geq(difference(Date_now, ticker'.lastTick), msPerFrame)]_vars

\* C21 as the doubles have it: lastTick never exceeds now; a performed tick
\* advances lastTick by a whole number q >= 1 of msPerFrame, give or take
\* one unit in the last place of now (the remainder is carried over,
\* lastTick is not reset to now), and leaves
\* 0 <= now - lastTick < msPerFrame + one unit in the last place of now.
C21_CarryOverRounded ==
    /\ [](geq(Date_now, ticker.lastTick))
    /\ [][(ticker'.lastTick # ticker.lastTick) =>
            /\ \E q \in 1..(1 + (Date_now.thirds \div msPerFrame.thirds)) :
                   Within(difference(ticker'.lastTick, ticker.lastTick),
                          times(q, msPerFrame), ulp(Date_now))
            /\ geq(difference(Date_now, ticker'.lastTick), Zero)
            /\ ~geq(difference(Date_now, ticker'.lastTick),
                    plusEps(msPerFrame, ulp(Date_now)))]_vars

\* Ticks have been performed, the last of them after a skipped frame, and
\* rounding has left lastTick off every whole multiple of msPerFrame.
C21_Witness ==
    /\ pc = "run"
    /\ ticker.phase = "idle"
    /\ ticker.outcome = "ticked"
    /\ ticker.ticks >= 2
    /\ ~IsMultiple(ticker.lastTick, msPerFrame)
    /\ geq(difference(Date_now, ticker.lastTick), Zero)

----------------------------------------------------------------------------
(* Properties of ticks followed to their end (SpecTerm).                   *)

\* (x, y) names a slot of Grid g: column inside the row, row inside the
\* grid, and the flat index y * width + x inside the array and in row y.
InGrid(g, p) ==
    /\ p[1] \in 0..(g.width - 1)
    /\ p[2] \in 0..(g.height - 1)
    /\ ((p[2] * g.width) + p[1]) \in DOMAIN g.grid
    /\ ((p[2] * g.width) + p[1]) \div g.width = p[2]

RECURSIVE IncrementEach(_, _, _)
IncrementEach(g, slots, offset) ==
    IF slots = << >> THEN g
    ELSE IncrementEach(GridIncrement(g, Head(slots)[1], Head(slots)[2], offset),
                       Tail(slots), offset)

\* neighbourSlots and neighbourCountSlot name the slots that
\* incrementNeighbours and neighbourCount use for cell p.
SlotsOf(w, p) ==
    /\ incrementNeighbours(w, p[1], p[2], 1).neighbourCounts
           = IncrementEach(w.neighbourCounts, neighbourSlots(p[1], p[2]), 1)
    /\ neighbourCount(w, p[1], p[2])
           = GridGet(w.neighbourCounts, neighbourCountSlot(p[1], p[2])[1],
                     neighbourCountSlot(p[1], p[2])[2])

\* What the next statement of the tick reads or writes for cell p: the
\* cell's slot of state, and slots of neighbourCounts.
CellAccessInGrid(w, p, slots) ==
    /\ SlotsOf(w, p)
    /\ InGrid(w.state, p)
    /\ \A k \in 1..Len(slots) : InGrid(w.neighbourCounts, slots[k])

\* C22: in a World of width >= 1 and height >= 1 every slot that the next
\* statement of a tick reads or writes (isAlive and neighbourCount in the
\* loops, takeLife, giveLife and their incrementNeighbours afterwards, and
\* the reads of the change set) lies inside its Grid or array, in its own
\* row; and every tick that has started comes to its end.
C22_TickTotal ==
    /\ []((pc = "run" /\ world.width >= 1 /\ world.height >= 1) =>
            /\ (step.phase = "scan" /\ step.y < world.height /\ step.x < world.width) =>
                   CellAccessInGrid(world, <<step.x, step.y>>,
                                    <<neighbourCountSlot(step.x, step.y)>>)
            /\ (step.phase = "deaths" /\ step.i < changes.deaths.idx) =>
                   /\ step.i \in DOMAIN changes.deaths.xs
                   /\ step.i \in DOMAIN changes.deaths.ys
                   /\ CellAccessInGrid(world, NextDeath,
                                       neighbourSlots(NextDeath[1], NextDeath[2]))
            /\ (step.phase = "births" /\ step.i < changes.births.idx) =>
                   /\ step.i \in DOMAIN changes.births.xs
                   /\ step.i \in DOMAIN changes.births.ys
                   /\ CellAccessInGrid(world, NextBirth,
                                       neighbourSlots(NextBirth[1], NextBirth[2])))
    /\ ((step.phase # "idle") ~> (step.phase = "idle"))

\* A tick of a 3 x 3 World has come to its last birth, a corner cell, after
\* taking the life of the cell in the middle.
C22_Witness ==
    /\ pc = "run"
    /\ world.width = 3
    /\ world.height = 3
    /\ step.phase = "births"
    /\ step.i + 1 = changes.births.idx
    /\ NextBirth \in {<<0, 0>>, <<2, 0>>, <<0, 2>>, <<2, 2>>}
    /\ <<1, 1>> \in SeqToSet(Deaths(changes))

----------------------------------------------------------------------------
(* Properties of a PointSet on its own (SpecPoints).                       *)

\* The pairs of s are in the order of the scan: ascending y, and ascending
\* x within a row.
InScanOrder(s) == \A i, j \in 1..Len(s) : i < j => scannedBefore(s[i], s[j])

\* C23: the list holds its cells in the order of the scan, and forEach
\* visits the pairs in the order of their insertion, each (x, y) pair read
\* back as it was pushed.
C23_ScanOrder ==
    /\ InScanOrder(forEach(points.set))
    /\ forEach(points.set) = points.pushed

====
